---------------------------- MODULE Spec2Model ----------------------------
(***************************************************************************)
(* A model of libogit.py: the object envelope and the object store         *)
(* (write_object / read_object), the tree entry codec (serialize_tree /    *)
(* parse_tree), the commit header codec (serialize_kvlm / parse_lvlm), the *)
(* ancestry walk (log_graphviz) and the tree checkout (checkout_tree).     *)
(*                                                                         *)
(* Byte strings are sequences of byte values (ASCII codes); Python str     *)
(* values that the code converts (hex identifiers) are sequences of the    *)
(* ASCII codes of their characters.  Python indices are 0-based; the       *)
(* Py* operators below carry Python's slicing and find semantics,          *)
(* negative indices included, because the code relies on them when find    *)
(* returns -1.                                                             *)
(***************************************************************************)
EXTENDS Integers, Sequences, FiniteSets, TLC

VARIABLES
    (* tree codec *)
    tPc, tItems, tRaw, tOut,
    (* commit header codec *)
    kPc, kM, kRaw, kOut,
    (* object store: directories and files below .ogit/objects, and the    *)
    (* object handed to write_object / returned by read_object             *)
    oPc, dirs, files, oFmt, oData, oSha, oEnv, oObj, oWrites,
    (* ancestry walk *)
    wPc, wStore, wSeen, wStack, wReads, wEdges,
    (* tree checkout *)
    cPc, cStore, cRoot, cStack, fsDirs, fsFiles

treeVars == <<tPc, tItems, tRaw, tOut>>
kvlmVars == <<kPc, kM, kRaw, kOut>>
objVars  == <<oPc, dirs, files, oFmt, oData, oSha, oEnv, oObj, oWrites>>
walkVars == <<wPc, wStore, wSeen, wStack, wReads, wEdges>>
coVars   == <<cPc, cStore, cRoot, cStack, fsDirs, fsFiles>>
vars     == <<treeVars, kvlmVars, objVars, walkVars, coVars>>

(***************************************************************************)
(* Byte values the code names.                                             *)
(***************************************************************************)
SP  == 32
NUL == 0
LF  == 10

B_blob   == <<98, 108, 111, 98>>
B_tree   == <<116, 114, 101, 101>>
B_commit == <<99, 111, 109, 109, 105, 116>>

None == [none |-> TRUE]
Raise(e) == [err |-> TRUE, exc |-> e]

Min(a, b) == IF a < b THEN a ELSE b
Max(a, b) == IF a < b THEN b ELSE a

(* All sequences over S of length at most n. *)
SeqUpTo(S, n) == UNION {[1..m -> S] : m \in 0..n}

(***************************************************************************)
(* Python built-ins, as the code uses them.                                *)
(***************************************************************************)
(* A slice bound: negative counts from the end, then clamped to 0..n. *)
PyIdx(i, n) == IF i < 0 THEN Max(i + n, 0) ELSE Min(i, n)

(* s[a:b] *)
PySlice(s, a, b) ==
    LET lo == PyIdx(a, Len(s))
        hi == PyIdx(b, Len(s))
    IN  IF lo < hi THEN SubSeq(s, lo + 1, hi) ELSE <<>>

(* s[a:] *)
PySliceFrom(s, a) == PySlice(s, a, Len(s))

(* s[:b] *)
PySliceTo(s, b) == PySlice(s, 0, b)

(* s.find(bytes([c]), start): the least index >= start holding c, or -1. *)
PyFind(s, c, start) ==
    LET lo   == PyIdx(start, Len(s))
        hits == {i \in lo..(Len(s) - 1) : s[i + 1] = c}
    IN  IF hits = {} THEN -1 ELSE CHOOSE i \in hits : \A j \in hits : i <= j

(* s.replace(old, new), old not empty: leftmost, non-overlapping. *)
RECURSIVE PyReplace(_, _, _)
PyReplace(s, old, new) ==
    IF Len(s) < Len(old) THEN s
    ELSE IF SubSeq(s, 1, Len(old)) = old
         THEN new \o PyReplace(SubSeq(s, Len(old) + 1, Len(s)), old, new)
         ELSE <<s[1]>> \o PyReplace(Tail(s), old, new)

(* str(n).encode() for n >= 0: the decimal digits, no sign, no padding. *)
RECURSIVE PyStr(_)
PyStr(n) == IF n < 10 THEN <<48 + n>> ELSE PyStr(n \div 10) \o <<48 + (n % 10)>>

IsDigit(c) == c \in 48..57
IsSpace(c) == c \in {9, 10, 11, 12, 13, 32}

RECURSIVE PyStrip(_)
PyStrip(s) ==
    IF s = <<>> THEN s
    ELSE IF IsSpace(s[1]) THEN PyStrip(Tail(s))
    ELSE IF IsSpace(s[Len(s)]) THEN PyStrip(SubSeq(s, 1, Len(s) - 1))
    ELSE s

RECURSIVE DigitsValue(_)
DigitsValue(s) ==
    IF s = <<>> THEN 0
    ELSE IF s[Len(s)] = 95 THEN DigitsValue(SubSeq(s, 1, Len(s) - 1))
    ELSE 10 * DigitsValue(SubSeq(s, 1, Len(s) - 1)) + (s[Len(s)] - 48)

(* int(s.decode()) for ASCII s: surrounding whitespace is dropped, one sign *)
(* is allowed, the digits may be grouped by single underscores.            *)
PyInt(s) ==
    LET t    == PyStrip(s)
        neg  == t # <<>> /\ t[1] = 45
        body == IF t # <<>> /\ t[1] \in {43, 45} THEN Tail(t) ELSE t
        ok   == /\ body # <<>>
                /\ IsDigit(body[1]) /\ IsDigit(body[Len(body)])
                /\ \A i \in 1..Len(body) : IsDigit(body[i]) \/ body[i] = 95
                /\ \A i \in 1..(Len(body) - 1) : ~(body[i] = 95 /\ body[i + 1] = 95)
    IN  IF ok THEN [err |-> FALSE, val |-> IF neg THEN 0 - DigitsValue(body) ELSE DigitsValue(body)]
        ELSE Raise("ValueError")


(***************************************************************************)
(* Python's unbounded integers, for the 160-bit identifiers: a value is    *)
(* its hexadecimal digits (0..15), most significant first, without leading *)
(* zeros; zero is the empty sequence.                                      *)
(***************************************************************************)
HashBytes == 20
HexWidth  == 40

RECURSIVE StripZeros(_)
StripZeros(ds) == IF ds # <<>> /\ ds[1] = 0 THEN StripZeros(Tail(ds)) ELSE ds

RECURSIVE Zeros(_)
Zeros(n) == IF n <= 0 THEN <<>> ELSE <<0>> \o Zeros(n - 1)

IsHexChar(c) == c \in (48..57) \cup (97..102) \cup (65..70)
HexCharValue(c) == IF c \in 48..57 THEN c - 48 ELSE IF c \in 97..102 THEN c - 87 ELSE c - 55
HexChar(d) == IF d < 10 THEN 48 + d ELSE 87 + d

(* int(s, 16) for a string of hex digits *)
PyIntHex(s) ==
    IF s = <<>> \/ \E i \in 1..Len(s) : ~IsHexChar(s[i]) THEN Raise("ValueError")
    ELSE [err |-> FALSE, val |-> StripZeros([i \in 1..Len(s) |-> HexCharValue(s[i])])]

(* n.to_bytes(width, byteorder='big') *)
PyToBytes(n, width) ==
    IF Len(n) > 2 * width THEN Raise("OverflowError")
    ELSE LET ds == Zeros(2 * width - Len(n)) \o n
         IN  [err |-> FALSE, val |-> [i \in 1..width |-> 16 * ds[2 * i - 1] + ds[2 * i]]]

(* int.from_bytes(bs, byteorder='big') *)
PyFromBytes(bs) ==
    StripZeros([i \in 1..(2 * Len(bs)) |->
                  IF i % 2 = 1 THEN bs[(i + 1) \div 2] \div 16 ELSE bs[i \div 2] % 16])

(* format(n, '040x'): lowercase hex, zero-padded to at least 40 characters *)
PyFormatHex(n, width) ==
    LET ds == Zeros(width - Len(n)) \o n
    IN  [i \in 1..Len(ds) |-> HexChar(ds[i])]

(***************************************************************************)
(* The tree entry codec.  A TreeLeaf is [mode, path, sha]: mode and path   *)
(* are byte strings, sha is the 40-character hex identifier.               *)
(***************************************************************************)
TreeLeaf(mode, path, sha) == [mode |-> mode, path |-> path, sha |-> sha]

(* format(int.from_bytes(...), '040x') of parse_tree_leaf *)
(* a faulty variant: drops the zero padding *)
leaf_sha_unpadded(bs) == PyFormatHex(PyFromBytes(bs), 0)

leaf_sha(bs) == PyFormatHex(PyFromBytes(bs), HexWidth)

parse_tree_leaf(raw, start) ==
    LET space == PyFind(raw, SP, start)
        mode  == PySlice(raw, start, space)
        null  == PyFind(raw, NUL, space)
        path  == PySlice(raw, space + 1, null)
        sha   == leaf_sha(PySlice(raw, null + 1, null + 1 + HashBytes))
    IN  IF space - start \notin {5, 6} THEN Raise("AssertionError")
        ELSE [err |-> FALSE, pos |-> null + 1 + HashBytes, leaf |-> TreeLeaf(mode, path, sha)]

(* The loop of parse_tree.  seen holds the cursor positions already used:  *)
(* the cursor only comes back to one when find returned -1, and the loop   *)
(* then never ends ("NoReturn").                                           *)
RECURSIVE parse_tree_from(_, _, _, _)
parse_tree_from(raw, pos, tree, seen) ==
    IF ~(pos < Len(raw)) THEN [err |-> FALSE, items |-> tree]
    ELSE IF pos \in seen THEN Raise("NoReturn")
    ELSE LET r == parse_tree_leaf(raw, pos)
         IN  IF r.err THEN r
             ELSE parse_tree_from(raw, r.pos, Append(tree, r.leaf), seen \cup {pos})

parse_tree(raw) == parse_tree_from(raw, 0, <<>>, {})

RECURSIVE serialize_tree(_)
serialize_tree(items) ==
    IF items = <<>> THEN [err |-> FALSE, raw |-> <<>>]
    ELSE LET item == items[Len(items)]
             rest == serialize_tree(SubSeq(items, 1, Len(items) - 1))
             sha  == PyIntHex(item.sha)
             b    == IF sha.err THEN sha ELSE PyToBytes(sha.val, HashBytes)
         IN  IF rest.err THEN rest
             ELSE IF b.err THEN b
             ELSE [err |-> FALSE,
                   raw |-> rest.raw \o item.mode \o <<SP>> \o item.path \o <<NUL>> \o b.val]

(***************************************************************************)
(* The commit header codec.  A Python dict is the sequence of its items in *)
(* insertion order, [key, isList, vals]: a scalar value is isList = FALSE  *)
(* with one element in vals.                                               *)
(***************************************************************************)
Scalar(k, v) == [key |-> k, isList |-> FALSE, vals |-> <<v>>]
List(k, vs)  == [key |-> k, isList |-> TRUE, vals |-> vs]

DictKeys(d) == {d[i].key : i \in 1..Len(d)}
DictIndex(d, k) == CHOOSE i \in 1..Len(d) : d[i].key = k
DictGet(d, k) == d[DictIndex(d, k)]

(* dict_[k] = v: a key that is present keeps its place *)
DictSet(d, k, v) ==
    IF k \in DictKeys(d) THEN [d EXCEPT ![DictIndex(d, k)] = Scalar(k, v)]
    ELSE Append(d, Scalar(k, v))

(* lines 179-185: a repeated key becomes, or extends, a list *)
DictAdd(d, k, v) ==
    IF k \in DictKeys(d)
    THEN [d EXCEPT ![DictIndex(d, k)] = List(k, Append(@.vals, v))]
    ELSE Append(d, Scalar(k, v))

(* The while loop of parse_lvlm: the newline that ends the value.  When    *)
(* find returns -1 the search wraps to the start of raw; a newline met     *)
(* twice means the loop never ends.                                        *)
RECURSIVE value_end(_, _, _)
value_end(raw, end, seen) ==
    LET e == PyFind(raw, LF, end + 1)
    IN  IF e + 1 >= Len(raw) THEN Raise("IndexError")
        ELSE IF raw[e + 2] # SP THEN [err |-> FALSE, val |-> e]
        ELSE IF e \in seen THEN Raise("NoReturn")
        ELSE value_end(raw, e, seen \cup {e})

(* One call of parse_lvlm, up to its return or its recursive call.  hdr is *)
(* the list of header lines stored so far, kept beside the dict.           *)
parse_lvlm_call(raw, start, dict_, hdr) ==
    LET space   == PyFind(raw, SP, start)
        newline == PyFind(raw, LF, start)
    IN  IF space < 0 \/ newline < space
        THEN IF newline # start THEN Raise("AssertionError")
             ELSE [err |-> FALSE, done |-> TRUE, hdr |-> hdr,
                   dict |-> DictSet(dict_, <<>>, PySliceFrom(raw, start + 1))]
        ELSE LET key == PySlice(raw, start, space)
                 end == value_end(raw, start, {})
             IN  IF end.err THEN end
                 ELSE LET value == PyReplace(PySlice(raw, space + 1, end.val),
                                             <<LF, SP>>, <<LF>>)
                      IN  [err |-> FALSE, done |-> FALSE, start |-> end.val + 1,
                           hdr |-> Append(hdr, [key |-> key, value |-> value]),
                           dict |-> DictAdd(dict_, key, value)]

(* The recursion.  A call made again at a cursor already used recurses     *)
(* until the interpreter's recursion limit: RecursionError.                *)
RECURSIVE parse_lvlm_from(_, _, _, _, _)
parse_lvlm_from(raw, start, dict_, hdr, seen) ==
    IF start \in seen THEN Raise("RecursionError")
    ELSE LET r == parse_lvlm_call(raw, start, dict_, hdr)
         IN  IF r.err THEN r
             ELSE IF r.done THEN [err |-> FALSE, dict |-> r.dict, hdr |-> r.hdr]
             ELSE parse_lvlm_from(raw, r.start, r.dict, r.hdr, seen \cup {start})

parse_lvlm(raw) == parse_lvlm_from(raw, 0, <<>>, <<>>, {})

(* Line 204 reads the name k, which nothing in the module binds: the       *)
(* lookup raises NameError before the line is built.                       *)
name_k == [bound |-> FALSE]

kvlm_line(key, value) ==
    IF ~name_k.bound THEN Raise("NameError")
    ELSE [err |-> FALSE,
          raw |-> name_k.val \o <<SP>> \o PyReplace(value, <<LF>>, <<LF, SP>>) \o <<LF>>]

RECURSIVE kvlm_lines(_, _)
kvlm_lines(key, values) ==
    IF values = <<>> THEN [err |-> FALSE, raw |-> <<>>]
    ELSE LET l == kvlm_line(key, values[1])
             rest == IF l.err THEN l ELSE kvlm_lines(key, Tail(values))
         IN  IF l.err THEN l
             ELSE IF rest.err THEN rest
             ELSE [err |-> FALSE, raw |-> l.raw \o rest.raw]

RECURSIVE kvlm_headers(_)
kvlm_headers(kvlm) ==
    IF kvlm = <<>> THEN [err |-> FALSE, raw |-> <<>>]
    ELSE LET e == kvlm[1]
             h == IF e.key = <<>> THEN [err |-> FALSE, raw |-> <<>>]
                  ELSE kvlm_lines(e.key, e.vals)
             rest == IF h.err THEN h ELSE kvlm_headers(Tail(kvlm))
         IN  IF h.err THEN h
             ELSE IF rest.err THEN rest
             ELSE [err |-> FALSE, raw |-> h.raw \o rest.raw]

serialize_kvlm(kvlm) ==
    LET h == kvlm_headers(kvlm)
    IN  IF h.err THEN h
        ELSE IF <<>> \notin DictKeys(kvlm) THEN Raise("KeyError")
        ELSE [err |-> FALSE, raw |-> h.raw \o <<LF>> \o DictGet(kvlm, <<>>).vals[1]]

(***************************************************************************)
(* Objects.  An in-memory object is [cls, ...]: a Blob holds blobdata, a    *)
(* Tree holds items, a Commit holds kvlm.                                  *)
(***************************************************************************)
Blob(data)   == [err |-> FALSE, cls |-> "Blob", blobdata |-> data]
Tree(items)  == [err |-> FALSE, cls |-> "Tree", items |-> items]
Commit(kvlm) == [err |-> FALSE, cls |-> "Commit", kvlm |-> kvlm]

(* the class attribute fmt *)
fmt_of(obj) ==
    IF obj.cls = "Blob" THEN B_blob ELSE IF obj.cls = "Tree" THEN B_tree ELSE B_commit

(* obj.serialize(): [err, raw] *)
serialize(obj) ==
    IF obj.cls = "Blob" THEN [err |-> FALSE, raw |-> obj.blobdata]
    ELSE IF obj.cls = "Tree" THEN serialize_tree(obj.items)
    ELSE serialize_kvlm(obj.kvlm)

(* the keys of OBJECT_FORMAT_TO_CLASS *)
OBJECT_FORMAT_TO_CLASS == {B_commit, B_tree, B_blob}

(* OBJECT_FORMAT_TO_CLASS[fmt](repo, data): the constructor deserializes *)
tree_from(r)   == IF r.err THEN r ELSE Tree(r.items)
commit_from(r) == IF r.err THEN r ELSE Commit(r.dict)

construct(fmt, data) ==
    IF fmt = B_blob THEN Blob(data)
    ELSE IF fmt = B_tree THEN tree_from(parse_tree(data))
    ELSE commit_from(parse_lvlm(data))

(* obj.serialize() of the object a constructor returned, if it returned *)
serialize_built(obj) == IF obj.err THEN obj ELSE serialize(obj)

(***************************************************************************)
(* The envelope.                                                           *)
(***************************************************************************)
(* a faulty variant: declares the length of the body with its NUL *)
write_envelope_len1(fmt, data) ==
    fmt \o <<SP>> \o PyStr(Len(data) + 1) \o <<NUL>> \o data

(* line 242 *)
write_envelope(fmt, data) ==
    fmt \o <<SP>> \o PyStr(Len(data)) \o <<NUL>> \o data

(* a faulty variant: accepts any declared length *)
length_matches_any(size, raw, first_null) == TRUE

(* line 223 *)
length_matches(size, raw, first_null) == size = Len(raw) - first_null - 1

(* lines 216-226: the type tag and the payload of a decompressed envelope *)
read_envelope(raw) ==
    LET first_space == PyFind(raw, SP, 0)
        fmt         == PySliceTo(raw, first_space)
        first_null  == PyFind(raw, NUL, first_space)
        size        == PyInt(PySlice(raw, first_space, first_null))
    IN  IF fmt \notin OBJECT_FORMAT_TO_CLASS THEN Raise("Exception: bad type")
        ELSE IF size.err THEN size
        ELSE IF ~length_matches(size.val, raw, first_null) THEN Raise("Exception: bad length")
        ELSE [err |-> FALSE, fmt |-> fmt, payload |-> PySliceFrom(raw, first_null + 1)]

(***************************************************************************)
(* hashlib.sha1(b).hexdigest(), taken to be free of collisions: the digest *)
(* of b is modelled by the hex digits of b itself, two per byte, so that   *)
(* different inputs have different digests and a digest still splits into  *)
(* its first two characters and the rest.                                  *)
(***************************************************************************)
sha1_hexdigest(b) ==
    [i \in 1..(2 * Len(b)) |->
       HexChar(IF i % 2 = 1 THEN b[(i + 1) \div 2] \div 16 ELSE b[i \div 2] % 16)]

(***************************************************************************)
(* zlib.compress / zlib.decompress: a lossless pair.  The compressed form  *)
(* is the data behind the two-byte zlib header; anything that does not     *)
(* start with the header does not decompress.                              *)
(***************************************************************************)
ZlibHeader == <<120, 156>>

zlib_compress(b) == ZlibHeader \o b

zlib_decompress(z) ==
    IF Len(z) >= 2 /\ SubSeq(z, 1, 2) = ZlibHeader
    THEN [err |-> FALSE, raw |-> SubSeq(z, 3, Len(z))]
    ELSE Raise("zlib.error")

(***************************************************************************)
(* The object store: d is the set of directories objects/<xx>, f maps the  *)
(* path <<xx, rest>> of every file objects/<xx>/<rest> to its content.     *)
(***************************************************************************)
(* repo_file(repo, 'objects', sha[:2], sha[2:]): the path, as a pair *)
object_path(sha) == <<PySliceTo(sha, 2), PySliceFrom(sha, 2)>>

(* a faulty variant: hashes the payload alone *)
object_sha_of_data(result, data) == sha1_hexdigest(data)

(* line 243 *)
object_sha(result, data) == sha1_hexdigest(result)

(* write_object(obj, actually_write), given ser = obj.serialize():         *)
(* [err, sha, dirs, files].  repo_file(..., mkdir=True) creates the        *)
(* directory objects/<xx> when it is missing; open('wb') creates the file  *)
(* or replaces its content.                                                *)
write_object(fmt, ser, actually_write, d, f) ==
    IF ser.err THEN [err |-> TRUE, exc |-> ser.exc, dirs |-> d, files |-> f]
    ELSE LET result == write_envelope(fmt, ser.raw)
             sha    == object_sha(result, ser.raw)
             path   == object_path(sha)
             z      == zlib_compress(result)
         IN  [err   |-> FALSE,
              sha   |-> sha,
              dirs  |-> IF actually_write THEN d \cup {path[1]} ELSE d,
              files |-> IF actually_write
                        THEN [q \in DOMAIN f \cup {path} |-> IF q = path THEN z ELSE f[q]]
                        ELSE f]

(* lines 211-214: the decompressed content of the object's file.           *)
(* repo_file returns None when the directory is missing, and None has no   *)
(* open.                                                                   *)
read_raw(sha, d, f) ==
    LET path == object_path(sha)
    IN  IF path[1] \notin d THEN Raise("AttributeError")
        ELSE IF path \notin DOMAIN f THEN Raise("FileNotFoundError")
        ELSE zlib_decompress(f[path])

(* lines 216-224 on what line 214 read *)
envelope_of(raw) == IF raw.err THEN raw ELSE read_envelope(raw.raw)

(* line 226 *)
object_of(env) == IF env.err THEN env ELSE construct(env.fmt, env.payload)

(* read_object(repo, sha) *)
read_object(sha, d, f) == object_of(envelope_of(read_raw(sha, d, f)))

(* hash_object(fd, fmt, repo), data being fd.read(): the result of its     *)
(* write_object call                                                       *)
hash_object(fmt, data, has_repo, d, f) ==
    write_object(fmt, serialize_built(construct(fmt, data)), has_repo, d, f)

(***************************************************************************)
(* The parts of the state a specification does not use stay idle.          *)
(***************************************************************************)
IdleTree == tPc = "idle" /\ tItems = None /\ tRaw = None /\ tOut = None
IdleKvlm == kPc = "idle" /\ kM = None /\ kRaw = None /\ kOut = None
IdleObj  == /\ oPc = "idle" /\ dirs = {} /\ files = <<>> /\ oFmt = None /\ oData = None
            /\ oSha = None /\ oEnv = None /\ oObj = None /\ oWrites = <<>>
IdleWalk == /\ wPc = "idle" /\ wStore = None /\ wSeen = {} /\ wStack = <<>>
            /\ wReads = None /\ wEdges = <<>>
IdleCo   == /\ cPc = "idle" /\ cStore = None /\ cRoot = None /\ cStack = <<>>
            /\ fsDirs = {} /\ fsFiles = <<>>

(***************************************************************************)
(* SpecTree: serialize_tree, then parse_tree, on an entry list.            *)
(***************************************************************************)
MaxEntries == 2

Modes == {<<52, 48, 48, 48, 48>>, <<49, 48, 48, 54, 52, 52>>}
Paths == {<<97>>, <<97, 32, 98>>, <<>>}
(* identifiers whose raw bytes hold leading zero bytes, NUL and space bytes *)
Shas  == {PyFormatHex(<<>>, HexWidth),
          PyFormatHex(<<1, 2, 0, 0, 0, 15>>, HexWidth),
          PyFormatHex(<<2, 0>> \o Zeros(36) \o <<2, 0>>, HexWidth)}
Entries == {TreeLeaf(m, p, h) : m \in Modes, p \in Paths, h \in Shas}

InitTree ==
    /\ tPc = "new" /\ tItems \in SeqUpTo(Entries, MaxEntries)
    /\ tRaw = None /\ tOut = None
    /\ IdleKvlm /\ IdleObj /\ IdleWalk /\ IdleCo

SerializeTree ==
    /\ tPc = "new"
    /\ tRaw' = serialize_tree(tItems)
    /\ tPc' = IF tRaw'.err THEN "raised" ELSE "serialized"
    /\ UNCHANGED <<tItems, tOut, kvlmVars, objVars, walkVars, coVars>>

ParseTree ==
    /\ tPc = "serialized"
    /\ tOut' = parse_tree(tRaw.raw)
    /\ tPc' = "parsed"
    /\ UNCHANGED <<tItems, tRaw, kvlmVars, objVars, walkVars, coVars>>

NextTree == SerializeTree \/ ParseTree

SpecTree == InitTree /\ [][NextTree]_vars

(***************************************************************************)
(* SpecKvlm: a commit payload is either serialized from a mapping or taken *)
(* as stored, and then parsed.                                             *)
(***************************************************************************)
MaxHeaders == 2
MaxText    == 4

KvlmKeys   == {<<97>>, <<98>>}
KvlmValues == {<<120>>, <<120, 10, 121>>, <<>>}
KvlmMessages == {<<109, 10>>, <<>>, <<109, 32, 110, 10, 10, 32, 111>>}
KvlmItems  == {Scalar(k, v) : k \in KvlmKeys, v \in KvlmValues}
                 \cup {List(k, <<v, w>>) : k \in KvlmKeys, v \in KvlmValues, w \in KvlmValues}
KvlmHeaders == {h \in SeqUpTo(KvlmItems, MaxHeaders) :
                  \A i, j \in 1..Len(h) : h[i].key = h[j].key => i = j}
(* the mappings with a message: the message item at any place among the headers *)
Mappings ==
    UNION {{SubSeq(h, 1, i) \o <<Scalar(<<>>, m)>> \o SubSeq(h, i + 1, Len(h)) :
              m \in KvlmMessages, i \in 0..Len(h)} : h \in KvlmHeaders}
Texts == SeqUpTo({SP, LF, 97, 98}, MaxText)

(* Either a mapping to serialize and parse back, or a stored text to parse *)
(* (with no mapping, kM empty).                                            *)
InitKvlm ==
    /\ \/ kPc = "new" /\ kM \in Mappings /\ kRaw = None
       \/ kPc = "stored" /\ kM = <<>> /\ kRaw \in {[err |-> FALSE, raw |-> t] : t \in Texts}
    /\ kOut = None
    /\ IdleTree /\ IdleObj /\ IdleWalk /\ IdleCo

SerializeKvlm ==
    /\ kPc = "new"
    /\ kRaw' = serialize_kvlm(kM)
    /\ kPc' = IF kRaw'.err THEN "raised" ELSE "serialized"
    /\ UNCHANGED <<kM, kOut, treeVars, objVars, walkVars, coVars>>

ParseLvlm ==
    /\ kPc \in {"serialized", "stored"}
    /\ kOut' = parse_lvlm(kRaw.raw)
    /\ kPc' = "parsed"
    /\ UNCHANGED <<kM, kRaw, treeVars, objVars, walkVars, coVars>>

NextKvlm == SerializeKvlm \/ ParseLvlm

SpecKvlm == InitKvlm /\ [][NextKvlm]_vars

(***************************************************************************)
(* The store's operations as actions.                                      *)
(***************************************************************************)
(* read_object(repo, oSha): oEnv keeps what the envelope decoded to, oObj  *)
(* the object returned or the exception raised.                            *)
ReadObject ==
    /\ oPc \in {"written", "stored"}
    /\ oEnv' = envelope_of(read_raw(oSha, dirs, files))
    /\ oObj' = read_object(oSha, dirs, files)
    /\ oPc' = "read"
    /\ UNCHANGED <<dirs, files, oFmt, oData, oSha, oWrites, treeVars, kvlmVars, walkVars, coVars>>

(* what a write_object call that ended as w leaves behind *)
Written(w) ==
    /\ oSha' = IF w.err THEN None ELSE w.sha
    /\ dirs' = w.dirs
    /\ files' = w.files
    /\ oPc' = IF w.err THEN "raised" ELSE "written"

(* write_object(obj) for the object at hand, whose serialize() is oData *)
WriteObject ==
    /\ oPc = "new"
    /\ Written(write_object(oFmt, [err |-> FALSE, raw |-> oData], TRUE, dirs, files))
    /\ UNCHANGED <<oFmt, oData, oEnv, oObj, oWrites, treeVars, kvlmVars, walkVars, coVars>>

(***************************************************************************)
(* SpecEnvelope: one object is written, then read back by its identifier.  *)
(***************************************************************************)
MaxPayload == 3

(* payloads with NUL, space and digit bytes in them, short ones and ones   *)
(* whose length takes two decimal digits                                   *)
Payloads ==
    LET short == SeqUpTo({NUL, SP, 49, 97}, MaxPayload)
    IN  short \cup {<<120, 120, 120, 120, 120, 120, 120, 120, 120>> \o p : p \in short}

InitEnvelope ==
    /\ oPc = "new" /\ dirs = {} /\ files = <<>>
    /\ oFmt \in OBJECT_FORMAT_TO_CLASS /\ oData \in Payloads
    /\ oSha = None /\ oEnv = None /\ oObj = None /\ oWrites = <<>>
    /\ IdleTree /\ IdleKvlm /\ IdleWalk /\ IdleCo

NextEnvelope == WriteObject \/ ReadObject

SpecEnvelope == InitEnvelope /\ [][NextEnvelope]_vars

(***************************************************************************)
(* SpecRead: the store holds one file, whose decompressed content is any   *)
(* byte string; read_object reads it.                                      *)
(***************************************************************************)
MaxTail == 4

RawEnvelopes ==
    {pre \o t : pre \in {<<>>, B_blob, B_tree, B_commit},
                t \in SeqUpTo({NUL, SP, 48, 55, 88}, MaxTail)}

InitRead ==
    /\ oPc = "stored"
    /\ \E raw \in RawEnvelopes :
          /\ oSha = sha1_hexdigest(raw)
          /\ dirs = {object_path(oSha)[1]}
          /\ files = [q \in {object_path(oSha)} |-> zlib_compress(raw)]
    /\ oFmt = None /\ oData = None /\ oEnv = None /\ oObj = None /\ oWrites = <<>>
    /\ IdleTree /\ IdleKvlm /\ IdleWalk /\ IdleCo

NextRead == ReadObject

SpecRead == InitRead /\ [][NextRead]_vars

(***************************************************************************)
(* SpecStore: hash_object calls on an empty store, each followed or not by *)
(* a read of the identifier returned.                                      *)
(***************************************************************************)
MaxWrites == 2

StoreData ==
    {<<>>, <<97>>, <<10, 109>>, <<97, 32, 98, 10, 10, 109>>,
     <<52, 48, 48, 48, 48, 32, 97, 0>> \o Zeros(HashBytes)}

InitStore ==
    /\ oPc = "new" /\ dirs = {} /\ files = <<>>
    /\ oFmt = None /\ oData = None
    /\ oSha = None /\ oEnv = None /\ oObj = None /\ oWrites = <<>>
    /\ IdleTree /\ IdleKvlm /\ IdleWalk /\ IdleCo

(* hash_object(fd, fmt, repo): the object is built from the data read,     *)
(* then written when a repository is given.  oWrites logs the calls.       *)
HashObject ==
    /\ oPc \in {"new", "written", "raised", "read"}
    /\ Len(oWrites) < MaxWrites
    /\ \E fmt \in OBJECT_FORMAT_TO_CLASS, data \in StoreData, has_repo \in BOOLEAN :
          /\ Written(hash_object(fmt, data, has_repo, dirs, files))
          /\ oFmt' = fmt
          /\ oData' = data
          /\ oWrites' = Append(oWrites, [fmt |-> fmt, data |-> data, repo |-> has_repo, err |-> oPc' = "raised",
                                         sha |-> IF oPc' = "raised" THEN <<>> ELSE oSha'])
    /\ UNCHANGED <<oEnv, oObj, treeVars, kvlmVars, walkVars, coVars>>

NextStore == HashObject \/ ReadObject

SpecStore == InitStore /\ [][NextStore]_vars

(***************************************************************************)
(* The ancestry walk, log_graphviz(repo, sha, seen).  wStore[sha] is what  *)
(* read_object(repo, sha) returns or raises; wStack is the call stack, one *)
(* frame [sha, pc, parents, i] per call, the running call last; wReads     *)
(* counts the read_object calls per identifier; wEdges is what was printed.*)
(***************************************************************************)
NumCommits == 3

B_parent == <<112, 97, 114, 101, 110, 116>>

WalkShas == {<<96 + i>> : i \in 1..NumCommits}

(* a commit with no parent key, one parent (a scalar) or two (a list) *)
WalkCommits ==
    {Commit(<<Scalar(<<>>, <<>>)>>)}
      \cup {Commit(<<Scalar(B_parent, p), Scalar(<<>>, <<>>)>>) : p \in WalkShas}
      \cup {Commit(<<List(B_parent, <<p, q>>), Scalar(<<>>, <<>>)>>) : p \in WalkShas, q \in WalkShas}

WalkObjects == {Raise("FileNotFoundError"), Blob(<<>>)} \cup WalkCommits

(* the recursion needs no more frames than this when no commit is entered  *)
(* twice; no call is made beyond it                                        *)
MaxDepth == NumCommits + 2

(* a faulty variant: never finds an identifier in seen *)
already_seen_never(sha, seen) == FALSE

(* line 512 *)
already_seen(sha, seen) == sha \in seen

(* a faulty variant: does not record the identifier *)
mark_seen_forgets(seen, sha) == seen

(* line 514 *)
mark_seen(seen, sha) == seen \cup {sha}

(* lines 522-524 *)
parents_of(kvlm) ==
    IF DictGet(kvlm, B_parent).isList THEN DictGet(kvlm, B_parent).vals
    ELSE <<DictGet(kvlm, B_parent).vals[1]>>

WalkFrame(sha) == [sha |-> sha, pc |-> "enter", parents |-> <<>>, i |-> 1]
WalkTop == wStack[Len(wStack)]
WalkCaller == SubSeq(wStack, 1, Len(wStack) - 1)

(* The store is any assignment of objects to the identifiers; the walk     *)
(* starts at the first one (the identifiers are interchangeable).          *)
InitWalk ==
    /\ wPc = "running"
    /\ wStore \in [WalkShas -> WalkObjects]
    /\ wSeen = {}
    /\ wStack = <<WalkFrame(<<97>>)>>
    /\ wReads = [s \in WalkShas |-> 0]
    /\ wEdges = <<>>
    /\ IdleTree /\ IdleKvlm /\ IdleObj /\ IdleCo

(* the running call returns *)
WalkReturn ==
    /\ wStack' = WalkCaller
    /\ wPc' = IF WalkCaller = <<>> THEN "done" ELSE "running"

(* the running call raises: the exception leaves every caller *)
WalkRaise ==
    /\ wStack' = <<>>
    /\ wPc' = "raised"

(* lines 516-524, after the identifier was marked: commit is what          *)
(* read_object gave                                                        *)
WalkExpand(commit) ==
    IF commit.err THEN WalkRaise
    ELSE IF commit.cls # "Commit" THEN WalkRaise
    ELSE IF B_parent \notin DictKeys(commit.kvlm) THEN WalkReturn
    ELSE /\ wStack' = Append(WalkCaller, [WalkTop EXCEPT !.pc = "loop",
                                                         !.parents = parents_of(commit.kvlm)])
         /\ wPc' = "running"

(* lines 512-524: a call, up to its loop *)
WalkEnter ==
    /\ wPc = "running" /\ WalkTop.pc = "enter"
    /\ IF already_seen(WalkTop.sha, wSeen)
       THEN WalkReturn /\ UNCHANGED <<wSeen, wReads>>
       ELSE /\ wSeen' = mark_seen(wSeen, WalkTop.sha)
            /\ wReads' = [wReads EXCEPT ![WalkTop.sha] = @ + 1]
            /\ WalkExpand(wStore[WalkTop.sha])
    /\ UNCHANGED <<wStore, wEdges, treeVars, kvlmVars, objVars, coVars>>

(* lines 526-529: one turn of the loop prints the edge and calls *)
WalkParent ==
    /\ wPc = "running" /\ WalkTop.pc = "loop" /\ WalkTop.i <= Len(WalkTop.parents)
    /\ Len(wStack) < MaxDepth
    /\ wEdges' = Append(wEdges, <<WalkTop.sha, WalkTop.parents[WalkTop.i]>>)
    /\ wStack' = Append(Append(WalkCaller, [WalkTop EXCEPT !.i = @ + 1]),
                        WalkFrame(WalkTop.parents[WalkTop.i]))
    /\ UNCHANGED <<wPc, wStore, wSeen, wReads, treeVars, kvlmVars, objVars, coVars>>

(* the loop is over: the call returns *)
WalkLoopEnd ==
    /\ wPc = "running" /\ WalkTop.pc = "loop" /\ WalkTop.i > Len(WalkTop.parents)
    /\ WalkReturn
    /\ UNCHANGED <<wStore, wSeen, wReads, wEdges, treeVars, kvlmVars, objVars, coVars>>

NextWalk == WalkEnter \/ WalkParent \/ WalkLoopEnd

SpecWalk == InitWalk /\ [][NextWalk]_vars

(* the interpreter runs the call to its end: a step that can be taken is taken *)
SpecWalkFair == SpecWalk /\ WF_vars(NextWalk)

(***************************************************************************)
(* The tree checkout, checkout_tree(repo, tree, path).  cStore[sha] is     *)
(* what read_object(repo, sha) returns or raises.  A name is [type, val]:  *)
(* the entries of a tree that read_object returned hold bytes, a tree a    *)
(* caller built may hold str, and pathlib joins str only.  A directory or  *)
(* file path is the sequence of its names below the destination; fsDirs is *)
(* the set of directories, fsFiles maps every file to its content.         *)
(* cStack is the call stack, one frame [items, i, path] per call.          *)
(***************************************************************************)
MaxCoEntries == 2

PyBytesName(v) == [type |-> "bytes", val |-> v]
PyStrName(v)   == [type |-> "str", val |-> v]

CoBlobs == {<<98, 49>>}
CoTrees == {<<116, 49>>, <<116, 50>>}
CoShas  == CoBlobs \cup CoTrees
CoNames == {<<97>>, <<100>>}
CoMode  == <<49, 48, 48, 54, 52, 52>>

CoItems(type) ==
    SeqUpTo({TreeLeaf(CoMode, [type |-> type, val |-> n], h) : n \in CoNames, h \in CoShas},
            MaxCoEntries)

(* pathlib: path / name *)
path_join(path, name) ==
    IF name.type # "str" THEN Raise("TypeError")
    ELSE [err |-> FALSE, path |-> Append(path, name.val)]

Parent(path) == SubSeq(path, 1, Len(path) - 1)

(* dest.mkdir(): [err, dirs] *)
fs_mkdir(dest, d, f) ==
    IF dest \in d \/ dest \in DOMAIN f THEN Raise("FileExistsError")
    ELSE IF Parent(dest) \notin d THEN Raise("FileNotFoundError")
    ELSE [err |-> FALSE, dirs |-> d \cup {dest}]

(* dest.open('wb') and f.write(data): [err, files] *)
fs_write(dest, data, d, f) ==
    IF dest \in d THEN Raise("IsADirectoryError")
    ELSE IF Parent(dest) \notin d THEN Raise("FileNotFoundError")
    ELSE [err |-> FALSE,
          files |-> [q \in DOMAIN f \cup {dest} |-> IF q = dest THEN data ELSE f[q]]]

CoFrame(items, path) == [items |-> items, i |-> 1, path |-> path]
CoTop == cStack[Len(cStack)]
CoItem == CoTop.items[CoTop.i]
(* the stack once the running call has taken its item *)
CoAdvanced == Append(SubSeq(cStack, 1, Len(cStack) - 1), [CoTop EXCEPT !.i = @ + 1])

InitCheckout ==
    /\ cPc = "running"
    /\ cStore \in {[h \in CoShas |-> IF h \in CoBlobs THEN Blob(<<104, 105, 10>>) ELSE Tree(t[h])] :
                     t \in [CoTrees -> CoItems("bytes")]}
    /\ \E type \in {"str", "bytes"} : cRoot \in {Tree(items) : items \in CoItems(type)}
    /\ cStack = <<CoFrame(cRoot.items, <<>>)>>
    /\ fsDirs = {<<>>}
    /\ fsFiles = <<>>
    /\ IdleTree /\ IdleKvlm /\ IdleObj /\ IdleWalk

CoRaise ==
    /\ cStack' = <<>>
    /\ cPc' = "raised"
    /\ UNCHANGED <<fsDirs, fsFiles>>

(* lines 470-472: the directory is made at dest, the call is made with path *)
CoTree(obj, dest, made) ==
    IF made.err THEN CoRaise
    ELSE /\ fsDirs' = made.dirs
         /\ cStack' = Append(CoAdvanced, CoFrame(obj.items, CoTop.path))
         /\ UNCHANGED <<cPc, fsFiles>>

(* lines 473-475 *)
CoBlob(written) ==
    IF written.err THEN CoRaise
    ELSE /\ fsFiles' = written.files
         /\ cStack' = CoAdvanced
         /\ UNCHANGED <<cPc, fsDirs>>

(* lines 468-475, obj being what read_object returned *)
CoPlace(obj, dest) ==
    IF dest.err THEN CoRaise
    ELSE IF obj.cls = "Tree" THEN CoTree(obj, dest.path, fs_mkdir(dest.path, fsDirs, fsFiles))
    ELSE IF obj.cls = "Blob" THEN CoBlob(fs_write(dest.path, obj.blobdata, fsDirs, fsFiles))
    ELSE cStack' = CoAdvanced /\ UNCHANGED <<cPc, fsDirs, fsFiles>>

(* lines 467-475: one turn of the loop *)
CheckoutItem ==
    /\ cPc = "running" /\ CoTop.i <= Len(CoTop.items)
    /\ IF cStore[CoItem.sha].err THEN CoRaise
       ELSE CoPlace(cStore[CoItem.sha], path_join(CoTop.path, CoItem.path))
    /\ UNCHANGED <<cStore, cRoot, treeVars, kvlmVars, objVars, walkVars>>

(* the loop is over: the call returns *)
CheckoutReturn ==
    /\ cPc = "running" /\ CoTop.i > Len(CoTop.items)
    /\ cStack' = SubSeq(cStack, 1, Len(cStack) - 1)
    /\ cPc' = IF Len(cStack) = 1 THEN "done" ELSE "running"
    /\ UNCHANGED <<cStore, cRoot, fsDirs, fsFiles, treeVars, kvlmVars, objVars, walkVars>>

NextCheckout == CheckoutItem \/ CheckoutReturn

SpecCheckout == InitCheckout /\ [][NextCheckout]_vars

(***************************************************************************)
(* The claims.                                                             *)
(***************************************************************************)

(* C1: the envelope write_object builds for a type tag and a payload is    *)
(* decoded by read_object's envelope parsing to that tag and that payload, *)
(* byte for byte.                                                          *)
EnvelopeRoundTrip ==
    oPc = "read" => oEnv = [err |-> FALSE, fmt |-> oFmt, payload |-> oData]

(* a payload read back whose length takes two digits and which holds a NUL *)
(* and a space *)
EnvelopeRoundTripWitness ==
    /\ oPc = "read" /\ ~oEnv.err
    /\ Len(oData) >= 10
    /\ \E i, j \in 1..Len(oData) : oData[i] = NUL /\ oData[j] = SP

(* C2: parse_lvlm(serialize_kvlm(M)) gives back M, for every mapping M     *)
(* that has a message: same keys in the same order, same values.           *)
KvlmRoundTrip ==
    (kPc \in {"raised", "parsed"} /\ \E i \in 1..Len(kM) : kM[i].key = <<>>)
        => (kPc = "parsed" /\ ~kOut.err /\ kOut.dict = kM)

(* C3: parse_tree(serialize_tree(E)) gives back the entries E in the same  *)
(* order, and neither call raises.                                         *)
TreeRoundTrip ==
    /\ tPc # "raised"
    /\ tPc = "parsed" => tOut = [err |-> FALSE, items |-> tItems]

(* two different entries, not in sorted order, the identifier of one with  *)
(* leading zeros *)
TreeRoundTripWitness ==
    /\ tPc = "parsed" /\ Len(tItems) = 2
    /\ tItems[1].path = <<97, 32, 98>> /\ tItems[2].path = <<97>>
    /\ tItems[1].sha[1] = 48 /\ tItems[2].sha[1] # 48
    /\ tItems[1].mode # tItems[2].mode

(* The file read_object reads in SpecRead, decompressed. *)
StoredRaw == zlib_decompress(files[object_path(oSha)]).raw

(* raw is a known type tag, a space, a decimal number, a NUL and a number  *)
(* of bytes that differs from the decimal number *)
LengthMismatch(raw) ==
    \E tag \in OBJECT_FORMAT_TO_CLASS, n \in 1..Len(raw) :
        /\ n > Len(tag) + 2
        /\ SubSeq(raw, 1, Len(tag) + 1) = tag \o <<SP>>
        /\ raw[n] = NUL
        /\ \A i \in (Len(tag) + 2)..(n - 1) : IsDigit(raw[i])
        /\ DigitsValue(SubSeq(raw, Len(tag) + 2, n - 1)) # Len(raw) - n

(* C4: read_object raises on a stored envelope with a known type tag whose *)
(* decimal length differs from the number of bytes after the NUL.          *)
LengthMismatchRaises ==
    (oPc = "read" /\ LengthMismatch(StoredRaw)) => oObj.err

(* an envelope that declares fewer bytes than follow the NUL was read *)
LengthMismatchWitness ==
    /\ oPc = "read" /\ LengthMismatch(StoredRaw)
    /\ StoredRaw = B_blob \o <<SP, 48, NUL, 88>>

(* C5: one walk calls read_object at most once per commit identifier.      *)
VisitAtMostOnce == \A sha \in WalkShas : wReads[sha] <= 1

(* the walk ended on a merge commit whose two parents both lead to the     *)
(* same commit, and read each of the three once *)
VisitAtMostOnceWitness ==
    /\ wPc = "done"
    /\ wStore[<<97>>] = Commit(<<List(B_parent, <<<<98>>, <<99>>>>), Scalar(<<>>, <<>>)>>)
    /\ wStore[<<98>>] = Commit(<<Scalar(B_parent, <<99>>), Scalar(<<>>, <<>>)>>)
    /\ \A sha \in {<<97>>, <<98>>, <<99>>} : wReads[sha] = 1
    /\ Len(wEdges) >= 3

RECURSIVE ExpectedDirs(_, _, _)
ExpectedDirs(items, path, depth) ==
    UNION {IF cStore[items[i].sha].cls = "Tree" /\ depth > 0
           THEN {Append(path, items[i].path.val)}
                  \cup ExpectedDirs(cStore[items[i].sha].items,
                                    Append(path, items[i].path.val), depth - 1)
           ELSE {} : i \in 1..Len(items)}

RECURSIVE ExpectedFiles(_, _, _)
ExpectedFiles(items, path, depth) ==
    UNION {IF cStore[items[i].sha].cls = "Blob"
           THEN {<<Append(path, items[i].path.val), cStore[items[i].sha].blobdata>>}
           ELSE IF depth > 0
           THEN ExpectedFiles(cStore[items[i].sha].items,
                              Append(path, items[i].path.val), depth - 1)
           ELSE {} : i \in 1..Len(items)}

(* no tree is nested in itself and no two entries of a tree share a name,  *)
(* down to the depth followed *)
RECURSIVE Materializable(_, _, _)
Materializable(items, above, depth) ==
    /\ \A i, j \in 1..Len(items) : items[i].path.val = items[j].path.val => i = j
    /\ \A i \in 1..Len(items) :
          cStore[items[i].sha].cls = "Tree" =>
              /\ depth > 0
              /\ items[i].sha \notin above
              /\ Materializable(cStore[items[i].sha].items, above \cup {items[i].sha}, depth - 1)

(* C7: checkout_tree into an empty directory makes one directory per       *)
(* nested tree and writes every blob below the directories of the trees    *)
(* that enclose it, with the blob's bytes.                                 *)
CheckoutMaterializes ==
    (cPc \in {"done", "raised"} /\ Materializable(cRoot.items, {}, Cardinality(CoTrees)))
        => /\ cPc = "done"
           /\ fsDirs = {<<>>} \cup ExpectedDirs(cRoot.items, <<>>, Cardinality(CoTrees))
           /\ {<<q, fsFiles[q]>> : q \in DOMAIN fsFiles}
                = ExpectedFiles(cRoot.items, <<>>, Cardinality(CoTrees))

(* C8: read_object raises on a stored envelope that has no space, or no    *)
(* NUL at or after its first space.                                        *)
MissingDelimiterRaises ==
    (/\ oPc = "read"
     /\ \/ \A i \in 1..Len(StoredRaw) : StoredRaw[i] # SP
        \/ \E i \in 1..Len(StoredRaw) :
              /\ StoredRaw[i] = SP
              /\ \A j \in 1..(i - 1) : StoredRaw[j] # SP
              /\ \A j \in i..Len(StoredRaw) : StoredRaw[j] # NUL)
        => oObj.err

(* C9: a write never changes the content stored under an identifier that   *)
(* is present; a write of an object written before returns the identifier  *)
(* returned before, and a write of an identifier that is present leaves    *)
(* the store as it is.                                                     *)
WriteIdempotent ==
    [][/\ \A q \in DOMAIN files : q \in DOMAIN files' /\ files'[q] = files[q]
       /\ Len(oWrites') > Len(oWrites) =>
             /\ \A i \in 1..Len(oWrites) :
                   (oWrites[i].fmt = oFmt' /\ oWrites[i].data = oData') =>
                       /\ oWrites[i].err = oWrites'[Len(oWrites')].err
                       /\ oWrites[i].sha = oWrites'[Len(oWrites')].sha
             /\ (/\ ~oWrites'[Len(oWrites')].err
                 /\ object_path(oWrites'[Len(oWrites')].sha) \in DOMAIN files)
                   => files' = files
      ]_vars

(* the same object was written twice into the store *)
WriteIdempotentWitness ==
    /\ Len(oWrites) = 2
    /\ oWrites[1] = oWrites[2]
    /\ ~oWrites[1].err /\ oWrites[1].repo
    /\ object_path(oWrites[1].sha) \in DOMAIN files

(* C10: when parse_lvlm returns, no header line was stored under the       *)
(* zero-length key, and every header value is in the result under its key. *)
ReservedMessageKey ==
    (kPc = "parsed" /\ ~kOut.err) =>
        \A i \in 1..Len(kOut.hdr) :
            /\ kOut.hdr[i].key # <<>>
            /\ \E j \in 1..Len(kOut.dict) :
                  /\ kOut.dict[j].key = kOut.hdr[i].key
                  /\ \E n \in 1..Len(kOut.dict[j].vals) : kOut.dict[j].vals[n] = kOut.hdr[i].value

=============================================================================
